---- MODULE Spec2Model ----
(***************************************************************************)
(* A model of the cauchy LSM-tree storage engine (src/src/lsmtree.py) and  *)
(* of the connection workers that call it (src/cauchy/server.py).          *)
(*                                                                         *)
(* Segment files are modelled byte for byte: a file is a sequence of       *)
(* bytes 0..255 laid out as struct.pack lays records out, and the reader   *)
(* decodes whatever bytes are there.  Python dictionaries live in a small  *)
(* heap so that the attributes self._memtable,                             *)
(* self._memtable_being_flushed and self.memtable_being_flushed are        *)
(* references, as in the source.                                           *)
(***************************************************************************)
EXTENDS Integers, Sequences, FiniteSets, TLC

VARIABLES
    heap,                      \* the SortedDict objects: object id -> dict
    _memtable,                 \* self._memtable: reference to the live memtable
    _memtable_being_flushed,   \* self._memtable_being_flushed (line 30)
    memtable_being_flushed,    \* self.memtable_being_flushed (line 92), "unset" before
    _data_segments,            \* self._data_segments: list of (name, offsets)
    _last_sstable_id,          \* self._last_sstable_id
    _last_merged_sstable_id,   \* self._last_merged_sstable_id
    files,                     \* the storage directory: file name -> bytes
    ret,                       \* what the last completed engine call returned
    lastWrite,                 \* history: per key, the last put/delete call made
    nops,                      \* history: number of state-changing calls made
    pc,                        \* per thread: the statement it is about to run
    loc,                       \* per thread: its local variables
    merged_values,             \* the compactor's local merged_values
    merge_pos                  \* the compactor's position in its segment loop

vars == <<heap, _memtable, _memtable_being_flushed, memtable_being_flushed,
          _data_segments, _last_sstable_id, _last_merged_sstable_id, files,
          ret, lastWrite, nops, pc, loc, merged_values, merge_pos>>

engine == <<heap, _memtable, _memtable_being_flushed, memtable_being_flushed,
            _data_segments, _last_sstable_id, _last_merged_sstable_id, files>>

threads == <<pc, loc, merged_values, merge_pos>>

-----------------------------------------------------------------------------
(* Bounds of the model.                                                    *)

\* number of state-changing engine calls explored by the sequential model
MaxOps == 4

\* number of requests the clients send, over all connections
MaxRequests == 3

\* self._memtable_max_size, scaled down: the size estimate above which put flushes
MemtableMaxSize == 7

\* self._sstable_block_size, scaled down: bytes per block of a segment
SstableBlockSize == 24

-----------------------------------------------------------------------------
(* Values.  A Python value is a record [t, i, s]: t is its type, i the     *)
(* number of an int, s the IEEE-754 bytes of a float or the code points of *)
(* a str (ASCII, so code points and UTF-8 bytes coincide).  put takes any  *)
(* object: a list stands for the values that are no int, float or str.     *)

IntV(n) == [t |-> "int", i |-> n, s |-> << >>]

FloatV(bits) == [t |-> "float", i |-> 0, s |-> bits]

StrV(chars) == [t |-> "str", i |-> 0, s |-> chars]

NoneV == [t |-> "none", i |-> 0, s |-> << >>]

\* the list [1]
ListV == [t |-> "list", i |-> 1, s |-> << >>]

\* the int 2^31: a Python int is unbounded, and the s of an int holds the
\* bits above the 31st, none for an int that fits 32 bits signed
IntTooBig == [t |-> "int", i |-> 0, s |-> <<1>>]

\* the ints struct.pack(">i", n) accepts
InInt32(v) == v.s = << >>

\* an exception raised out of an engine call
Raised(name) == [t |-> name, i |-> 0, s |-> << >>]

IsValue(r) == r.t \in {"int", "float", "str"}

IsError(r) == r.t \notin {"int", "float", "str", "none", "list"}

\* the str "tombstone" the source uses as its deletion marker (lines 47, 68, 115)
Tombstone == StrV(<<116, 111, 109, 98, 115, 116, 111, 110, 101>>)

FloatZero == <<0, 0, 0, 0, 0, 0, 0, 0>>

FloatNegZero == <<128, 0, 0, 0, 0, 0, 0, 0>>

\* 3.2 as a big-endian IEEE-754 double
Float3_2 == <<64, 9, 153, 153, 153, 153, 153, 154>>

\* Python truthiness, as `x or y` on line 50 tests it
Truthy(v) ==
    CASE v.t = "int" -> v.i # 0 \/ v.s # << >>
      [] v.t = "float" -> v.s \notin {FloatZero, FloatNegZero}
      [] v.t = "str" -> v.s # << >>
      [] v.t = "list" -> TRUE
      [] OTHER -> FALSE

\* the keys "a", "bb" and "c"
Keys == {<<97>>, <<98, 98>>, <<99>>}

\* the values put by the sequential model: 0, 2, 3.2, "" and "tombstone"
Values == {IntV(0), IntV(2), FloatV(Float3_2), StrV(<< >>), Tombstone}

-----------------------------------------------------------------------------
(* Ordering of str keys (code-point lexicographic, as Python compares str) *)

RECURSIVE StrLess(_, _)
StrLess(a, b) ==
    IF a = << >> THEN b # << >>
    ELSE IF b = << >> THEN FALSE
    ELSE IF Head(a) # Head(b) THEN Head(a) < Head(b)
    ELSE StrLess(Tail(a), Tail(b))

MinKey(S) == CHOOSE k \in S : \A x \in S \ {k} : StrLess(k, x)

\* the keys of a SortedDict in iteration order
RECURSIVE SortedKeys(_)
SortedKeys(S) ==
    IF S = {} THEN << >>
    ELSE LET k == MinKey(S) IN <<k>> \o SortedKeys(S \ {k})

-----------------------------------------------------------------------------
(* Dictionaries                                                            *)

EmptyDict == [k \in {} |-> NoneV]

\* dict.update({key: value})
DictUpdate(d, key, value) ==
    [k \in DOMAIN d \cup {key} |-> IF k = key THEN value ELSE d[k]]

\* dict.pop(key)
DictPop(d, key) == [k \in DOMAIN d \ {key} |-> d[k]]

\* dict.get(key)
DictGet(d, key) == IF key \in DOMAIN d THEN d[key] ELSE NoneV

-----------------------------------------------------------------------------
(* Record codec: struct.pack / struct.unpack, big-endian, no padding       *)

\* struct.pack(">i", n): four bytes, two's complement
PackInt(n) ==
    <<(n \div 16777216) % 256, (n \div 65536) % 256, (n \div 256) % 256, n % 256>>

\* struct.unpack(">i", b)[0]
UnpackInt(b) ==
    (IF b[1] >= 128 THEN b[1] - 256 ELSE b[1]) * 16777216
        + b[2] * 65536 + b[3] * 256 + b[4]

\* the code of the type character written on lines 137-143
TypeChar(value) ==
    IF value.t = "int" THEN 105          \* "i"
    ELSE IF value.t = "float" THEN 100   \* "d"
    ELSE 115                             \* "s"

\* the format string ">i{}s?ci", ">i{}s?cd" or ">i{}s?ci{}s", kept as its fields;
\* err is the TypeError of line 186 for a value that is no int, float or str
_generate_struct_format_string(key, value) ==
    [key_length |-> Len(key),
     kind |-> value.t,
     value_length |-> IF value.t = "str" THEN Len(value.s) ELSE 0,
     err |-> IF value.t \in {"int", "float", "str"} THEN "" ELSE "TypeError"]

\* struct.calcsize(format_string)
CalcSize(fmt) ==
    4 + fmt.key_length + 1 + 1
      + (CASE fmt.kind = "int" -> 4
           [] fmt.kind = "float" -> 8
           [] OTHER -> 4 + fmt.value_length)

\* the bytes one f.write(struct.pack(...)) of lines 144-168 appends
PackRecord(key, value) ==
    PackInt(Len(key)) \o key \o <<0>> \o <<TypeChar(value)>>
      \o (CASE value.t = "int" -> PackInt(value.i)
            [] value.t = "float" -> value.s
            [] OTHER -> PackInt(Len(value.s)) \o value.s)

\* file.read(n) at position pos (0-based) returns all n bytes
CanRead(f, pos, n) == n >= 0 /\ pos + n <= Len(f)

ReadBytes(f, pos, n) == SubSeq(f, pos + 1, pos + n)

\* bytes.decode("utf-8") succeeds (the model's text is ASCII)
Decodable(b) == \A j \in DOMAIN b : b[j] < 128

ReadFailed(name) ==
    [err |-> name, key |-> << >>, value |-> NoneV, tomb |-> FALSE, next |-> 0]

\* the value part of a record, after the type byte at position pos - 1
ReadValue(f, pos, key, tomb, type) ==
    CASE type = 115 ->
           IF ~CanRead(f, pos, 4) THEN ReadFailed("struct.error")
           ELSE LET value_length == UnpackInt(ReadBytes(f, pos, 4)) IN
                IF ~CanRead(f, pos + 4, value_length) THEN ReadFailed("struct.error")
                ELSE LET b == ReadBytes(f, pos + 4, value_length) IN
                     IF ~Decodable(b) THEN ReadFailed("UnicodeDecodeError")
                     ELSE [err |-> "", key |-> key, value |-> StrV(b), tomb |-> tomb,
                           next |-> pos + 4 + value_length]
      [] type = 105 ->
           IF ~CanRead(f, pos, 4) THEN ReadFailed("struct.error")
           ELSE [err |-> "", key |-> key, value |-> IntV(UnpackInt(ReadBytes(f, pos, 4))),
                 tomb |-> tomb, next |-> pos + 4]
      [] type = 100 ->
           IF ~CanRead(f, pos, 8) THEN ReadFailed("struct.error")
           ELSE [err |-> "", key |-> key, value |-> FloatV(ReadBytes(f, pos, 8)),
                 tomb |-> tomb, next |-> pos + 8]
      [] OTHER -> ReadFailed("TypeError")

\* reads a key, a value and the tombstone byte from position pos of the file;
\* next is the file position after the record
_read_item_from_disk(f, pos) ==
    IF ~CanRead(f, pos, 4) THEN ReadFailed("struct.error")
    ELSE LET key_length == UnpackInt(ReadBytes(f, pos, 4)) IN
         IF ~CanRead(f, pos + 4, key_length) THEN ReadFailed("struct.error")
         ELSE LET key == ReadBytes(f, pos + 4, key_length) IN
              IF ~Decodable(key) THEN ReadFailed("UnicodeDecodeError")
              ELSE IF ~CanRead(f, pos + 4 + key_length, 2) THEN ReadFailed("struct.error")
              ELSE LET tomb == f[pos + 4 + key_length + 1] # 0
                       type == f[pos + 4 + key_length + 2]
                   IN  IF type >= 128 THEN ReadFailed("UnicodeDecodeError")
                       ELSE ReadValue(f, pos + 4 + key_length + 2, key, tomb, type)

\* file.read(1) == b"" at position pos
_is_EOF(f, pos) == pos >= Len(f)

-----------------------------------------------------------------------------
(* Segment writer                                                          *)

\* a sparse index is a Python dict in insertion order: a sequence of
\* [key, off] entries with distinct keys
IndexKeys(offsets) == [j \in DOMAIN offsets |-> offsets[j].key]

InIndex(key, offsets) == \E j \in DOMAIN offsets : offsets[j].key = key

IndexGet(offsets, key) ==
    offsets[CHOOSE j \in DOMAIN offsets : offsets[j].key = key].off

\* offsets[key] = off
IndexSet(offsets, key, off) ==
    IF InIndex(key, offsets)
    THEN [j \in DOMAIN offsets |->
            IF offsets[j].key = key THEN [key |-> key, off |-> off] ELSE offsets[j]]
    ELSE Append(offsets, [key |-> key, off |-> off])

\* a writer that takes the offset of a new block after writing its first
\* record: f.tell() behind the f.write
WriteEntryTellAfterWrite(w, key, value) ==
    IF value = Tombstone THEN w
    ELSE LET fmt == _generate_struct_format_string(key, value)
             size == CalcSize(fmt)
             off1 == IF w.is_first_block THEN IndexSet(w.offsets, key, 0)
                     ELSE w.offsets
             newBlock == w.current_block_size + size > SstableBlockSize
         IN  IF fmt.err # "" THEN [w EXCEPT !.err = fmt.err]
             ELSE IF value.t = "int" /\ ~InInt32(value)
             THEN [w EXCEPT !.err = "struct.error"]
             ELSE [f |-> w.f \o PackRecord(key, value),
                   offsets |-> IF newBlock THEN IndexSet(off1, key, Len(w.f) + size)
                               ELSE off1,
                   current_block_size |->
                       IF newBlock THEN size ELSE w.current_block_size + size,
                   is_first_block |-> FALSE,
                   err |-> ""]

\* one iteration of the loop of lines 114-168, for the entry (key, value);
\* w holds the file written so far (f.tell() is its length) and the locals.
\* The format string raises TypeError (line 122) and struct.pack raises
\* struct.error for an int out of range (line 145) before anything of the
\* entry is written.
WriteEntry(w, key, value) ==
    IF value = Tombstone THEN w
    ELSE LET fmt == _generate_struct_format_string(key, value)
             size == CalcSize(fmt)
             off1 == IF w.is_first_block THEN IndexSet(w.offsets, key, 0)
                     ELSE w.offsets
             newBlock == w.current_block_size + size > SstableBlockSize
         IN  IF fmt.err # "" THEN [w EXCEPT !.err = fmt.err]
             ELSE IF value.t = "int" /\ ~InInt32(value)
             THEN [w EXCEPT !.err = "struct.error"]
             ELSE [f |-> w.f \o PackRecord(key, value),
                   offsets |-> IF newBlock THEN IndexSet(off1, key, Len(w.f)) ELSE off1,
                   current_block_size |->
                       IF newBlock THEN size ELSE w.current_block_size + size,
                   is_first_block |-> FALSE,
                   err |-> ""]

RECURSIVE WriteEntries(_, _, _)
WriteEntries(w, keys, d) ==
    IF keys = << >> \/ w.err # "" THEN w
    ELSE WriteEntries(WriteEntry(w, Head(keys), d[Head(keys)]), Tail(keys), d)

\* writes the dict to a new file; returns the file's bytes and the sparse
\* index, or the bytes written before an exception left the loop, and err
_write_dict_to_data_segment(dict_to_write) ==
    LET w == WriteEntries([f |-> << >>, offsets |-> << >>,
                           current_block_size |-> 0, is_first_block |-> TRUE,
                           err |-> ""],
                          SortedKeys(DOMAIN dict_to_write), dict_to_write)
    IN  [f |-> w.f, offsets |-> w.offsets, err |-> w.err]

-----------------------------------------------------------------------------
(* Segment reader                                                          *)

\* bisect.bisect_left(a, x, lo, hi), 0-based insertion point
RECURSIVE BisectLeft(_, _, _, _)
BisectLeft(a, x, lo, hi) ==
    IF lo >= hi THEN lo
    ELSE LET mid == (lo + hi) \div 2 IN
         IF StrLess(a[mid + 1], x) THEN BisectLeft(a, x, mid + 1, hi)
         ELSE BisectLeft(a, x, lo, mid)

\* a lookup of the range with bisect_right in the place of bisect_left
FindBlockRangeBisectRight(key, block_offsets) ==
    LET block_offset_keys == IndexKeys(block_offsets)
        n == Len(block_offset_keys)
        position == Cardinality({j \in 1..n : ~StrLess(key, block_offset_keys[j])})
        absent == [has |-> FALSE, key |-> << >>]
    IN  IF position = 0 /\ n = 0
        THEN [err |-> "IndexError", lower |-> absent, upper |-> absent]
        ELSE [err |-> "",
              lower |-> IF position \in 1..n
                        THEN [has |-> TRUE, key |-> block_offset_keys[position]]
                        ELSE [has |-> TRUE, key |-> block_offset_keys[1]],
              upper |-> IF position # n
                        THEN [has |-> TRUE, key |-> block_offset_keys[position + 1]]
                        ELSE absent]

\* the keys of the sparse index that bound the key; has |-> FALSE is None;
\* indexing an empty list raises IndexError
_find_block_range_for_key(key, block_offsets) ==
    LET block_offset_keys == IndexKeys(block_offsets)
        n == Len(block_offset_keys)
        position == BisectLeft(block_offset_keys, key, 0, n)
        absent == [has |-> FALSE, key |-> << >>]
    IN  IF position \notin 1..n /\ position = 0 /\ n = 0
        THEN [err |-> "IndexError", lower |-> absent, upper |-> absent]
        ELSE [err |-> "",
              lower |-> IF position \in 1..n
                        THEN [has |-> TRUE, key |-> block_offset_keys[position]]
                        ELSE IF position = 0
                        THEN [has |-> TRUE, key |-> block_offset_keys[1]]
                        ELSE absent,
              upper |-> IF position # n
                        THEN [has |-> TRUE, key |-> block_offset_keys[position + 1]]
                        ELSE absent]

FindFailed(name) == [err |-> name, found |-> FALSE, value |-> NoneV, offset |-> 0]

FindNone == FindFailed("")

\* the while loop of lines 235-249: fpos is the file position that _is_EOF
\* tests, current_block_offset the offset the next record is read at
RECURSIVE ScanBlock(_, _, _, _, _)
ScanBlock(f, fpos, current_block_offset, key, upper_bound) ==
    IF _is_EOF(f, fpos) THEN FindNone
    ELSE LET item == _read_item_from_disk(f, current_block_offset) IN
         IF item.err # "" THEN FindFailed(item.err)
         ELSE IF key = item.key /\ ~item.tomb
         THEN [err |-> "", found |-> TRUE, value |-> item.value,
               offset |-> current_block_offset]
         ELSE IF upper_bound.has /\ StrLess(upper_bound.key, item.key) THEN FindNone
         ELSE ScanBlock(f, item.next, item.next, key, upper_bound)

\* lines 228-249: the lookup through the bounding block range
FindInBlockRange(key, segment, fs) ==
    LET range == _find_block_range_for_key(key, segment.offsets) IN
    IF range.err # "" THEN FindFailed(range.err)
    ELSE IF ~range.lower.has THEN FindNone
    ELSE IF segment.name \notin DOMAIN fs THEN FindFailed("FileNotFoundError")
    ELSE ScanBlock(fs[segment.name], 0, IndexGet(segment.offsets, range.lower.key),
                   key, range.upper)

\* finds the key in the segment (a [name, offsets] record) given the files fs:
\* found with value and offset, not found (None), or an exception
_find_item_in_segment(key, segment, fs) ==
    IF InIndex(key, segment.offsets)
    THEN IF segment.name \notin DOMAIN fs THEN FindFailed("FileNotFoundError")
         ELSE LET off == IndexGet(segment.offsets, key)
                  item == _read_item_from_disk(fs[segment.name], off)
              IN  IF item.err # "" THEN FindFailed(item.err)
                  ELSE IF ~item.tomb
                  THEN [err |-> "", found |-> TRUE, value |-> item.value, offset |-> off]
                  ELSE FindInBlockRange(key, segment, fs)
    ELSE FindInBlockRange(key, segment, fs)

-----------------------------------------------------------------------------
(* Engine operations as functions of the engine state                      *)

\* the three SortedDict objects that can be referenced at one time
ObjIds == {"o1", "o2", "o3"}

\* sortedcontainers.SortedDict(): an object that none of refs, the references
\* that remain once the new object is assigned, refers to
NewObj(refs) == CHOOSE o \in ObjIds : o \notin refs

SegmentName(id) == [kind |-> "segment", id |-> id]

MergedSegmentName(id) == [kind |-> "merged_segment", id |-> id]

\* open(name, "wb") ... f.write(...): the file now holds exactly these bytes
FileWrite(fs, name, bytes) ==
    [n \in DOMAIN fs \cup {name} |-> IF n = name THEN bytes ELSE fs[n]]

\* os.remove(name)
FileRemove(fs, name) == [n \in DOMAIN fs \ {name} |-> fs[n]]

\* lines 47-54 of get: the two memtables.  done |-> FALSE sends get to the segments
GetMemtables(h, mt, mbf, key) ==
    LET m == DictGet(h[mt], key) IN
    IF m = Tombstone THEN [done |-> TRUE, res |-> NoneV]
    ELSE LET memtable_result == IF Truthy(m) THEN m ELSE DictGet(h[mbf], key) IN
         IF memtable_result # NoneV THEN [done |-> TRUE, res |-> memtable_result]
         ELSE [done |-> FALSE, res |-> NoneV]

\* lines 56-59 of get: segments i, i-1, ..., 1 (newest first)
RECURSIVE GetSegments(_, _, _, _)
GetSegments(segs, fs, key, i) ==
    IF i = 0 THEN NoneV
    ELSE LET segment_result == _find_item_in_segment(key, segs[i], fs) IN
         IF segment_result.err # "" THEN Raised(segment_result.err)
         ELSE IF segment_result.found THEN segment_result.value
         ELSE GetSegments(segs, fs, key, i - 1)

\* get(key) run without interruption on the given engine state
GetIn(h, mt, mbf, segs, fs, key) ==
    LET m == GetMemtables(h, mt, mbf, key) IN
    IF m.done THEN m.res ELSE GetSegments(segs, fs, key, Len(segs))

get(key) ==
    GetIn(heap, _memtable, _memtable_being_flushed, _data_segments, files, key)

\* lines 72-77 of delete: the newest segment where find returns the key
RECURSIVE DeleteSearch(_, _, _, _)
DeleteSearch(segs, fs, key, i) ==
    IF i = 0 THEN [err |-> "", has |-> FALSE, segment_name |-> SegmentName(0),
                   item_offset |-> 0]
    ELSE LET segment_result == _find_item_in_segment(key, segs[i], fs) IN
         IF segment_result.err # ""
         THEN [err |-> segment_result.err, has |-> FALSE,
               segment_name |-> SegmentName(0), item_offset |-> 0]
         ELSE IF segment_result.found
         THEN [err |-> "", has |-> TRUE, segment_name |-> segs[i].name,
               item_offset |-> segment_result.offset]
         ELSE DeleteSearch(segs, fs, key, i - 1)

\* f.seek(pos); f.write(one byte): a write past the end pads with zero bytes
WriteByteAt(f, pos, byte) ==
    [j \in 1..(IF pos + 1 > Len(f) THEN pos + 1 ELSE Len(f)) |->
        IF j = pos + 1 THEN byte ELSE IF j <= Len(f) THEN f[j] ELSE 0]

\* the bytes of the file after marking the item at the offset: key_length is
\* read from the start of the file (line 288), then the byte at
\* offset + 4 + key_length is set to 1
_mark_item_as_tombstoned(f, offset) ==
    LET key_length == UnpackInt(ReadBytes(f, 0, 4)) IN
    WriteByteAt(f, offset + 4 + key_length, 1)

\* the size pympler's asizeof reports is stood for by the bytes the entries
\* hold: key length plus 4 for an int, 8 for a float, the length of a str
EntrySize(key, value) ==
    Len(key) + (CASE value.t = "int" -> 4 [] value.t = "float" -> 8 [] OTHER -> Len(value.s))

RECURSIVE SumSizes(_, _)
SumSizes(d, keys) ==
    IF keys = {} THEN 0
    ELSE LET k == CHOOSE x \in keys : TRUE IN
         EntrySize(k, d[k]) + SumSizes(d, keys \ {k})

\* a threshold that counts the entries and not their size
OverThresholdByCount(d) == Cardinality(DOMAIN d) > MemtableMaxSize

_is_memtable_over_threshold(d) == SumSizes(d, DOMAIN d) > MemtableMaxSize

\* the while loop of lines 307-312 on one segment file, from position pos
RECURSIVE MergeFile(_, _, _)
MergeFile(f, pos, merged) ==
    IF _is_EOF(f, pos) THEN [err |-> "", merged |-> merged]
    ELSE LET item == _read_item_from_disk(f, pos) IN
         IF item.err # "" THEN [err |-> item.err, merged |-> merged]
         ELSE MergeFile(f, item.next,
                        IF ~item.tomb THEN DictUpdate(merged, item.key, item.value)
                        ELSE DictPop(merged, item.key))

\* one iteration of the for loop of lines 305-313: scan the segment, remove its file
MergeSegment(segment, fs, merged) ==
    IF segment.name \notin DOMAIN fs
    THEN [err |-> "FileNotFoundError", merged |-> merged, files |-> fs]
    ELSE LET m == MergeFile(fs[segment.name], 0, merged) IN
         IF m.err # "" THEN [err |-> m.err, merged |-> merged, files |-> fs]
         ELSE [err |-> "", merged |-> m.merged, files |-> FileRemove(fs, segment.name)]

\* the for loop of lines 305-313 from segment i on, run without interruption
RECURSIVE MergeAll(_, _, _, _)
MergeAll(segs, i, fs, merged) ==
    IF i > Len(segs) THEN [err |-> "", merged |-> merged, files |-> fs]
    ELSE LET m == MergeSegment(segs[i], fs, merged) IN
         IF m.err # "" THEN m ELSE MergeAll(segs, i + 1, m.files, m.merged)

-----------------------------------------------------------------------------
(* The engine driven by one caller at a time: every call runs to its end   *)
(* before the next starts.                                                 *)

Workers == {"w1", "w2"}

Compactor == "timer"

Threads == Workers \cup {Compactor}

\* a thread's locals: the request it serves (op, key, value), the locals of
\* _flush_memtable (id: the counter value loaded on line 95; name, offsets:
\* lines 96-100), and history: sent, the requests sent so far; expect, the value
\* a get must return if it is to fit a serial order (None: any); res, what the
\* last get returned; overlap, whether another write of the key was in progress
\* during this put; rotated, the memtable as it was when this flush rotated it
NoLocals ==
    [op |-> "none", key |-> << >>, value |-> NoneV, id |-> 0, name |-> 0,
     offsets |-> << >>, sent |-> 0, expect |-> NoneV, res |-> NoneV,
     overlap |-> FALSE, rotated |-> EmptyDict]

Returned(op, key, res) == [op |-> op, key |-> key, res |-> res]

\* history of the writes to one key: the last call (op, the value put, what the
\* call returned) and how many puts and deletes of the key were called
NeverWritten == [op |-> "none", value |-> NoneV, res |-> NoneV, puts |-> 0, deletes |-> 0]

AfterPut(w, value) ==
    [op |-> "put", value |-> value, res |-> NoneV, puts |-> w.puts + 1,
     deletes |-> w.deletes]

AfterDelete(w, res) ==
    [op |-> "delete", value |-> NoneV, res |-> res, puts |-> w.puts,
     deletes |-> w.deletes + 1]

Init ==
    /\ heap = [o \in ObjIds |-> EmptyDict]
    /\ _memtable = "o2"
    /\ _memtable_being_flushed = "o1"
    /\ memtable_being_flushed = "unset"
    /\ _data_segments = << >>
    /\ _last_sstable_id = 0
    /\ _last_merged_sstable_id = 0
    /\ files = [n \in {} |-> << >>]
    /\ ret = Returned("init", << >>, NoneV)
    /\ lastWrite = [k \in Keys |-> NeverWritten]
    /\ nops = 0
    /\ pc = [t \in Threads |-> "idle"]
    /\ loc = [t \in Threads |-> NoLocals]
    /\ merged_values = EmptyDict
    /\ merge_pos = 0

\* the exception _flush_memtable would raise on the memtable d, "" if none
FlushError(d) == _write_dict_to_data_segment(d).err

\* _flush_memtable run without interruption, on the heap h; an exception of
\* the writer leaves it after line 98: the memtable rotated, the file holding
\* what was written, no segment appended and the old memtable not cleared
FlushEffect(h) ==
    LET old == _memtable
        new == NewObj({old, _memtable_being_flushed})
        id == _last_sstable_id + 1
        w == _write_dict_to_data_segment(h[old])
    IN  /\ memtable_being_flushed' = old
        /\ _memtable' = new
        /\ _last_sstable_id' = id
        /\ files' = FileWrite(files, SegmentName(id), w.f)
        /\ _data_segments' =
               IF w.err # "" THEN _data_segments
               ELSE Append(_data_segments,
                           [name |-> SegmentName(id), offsets |-> w.offsets])
        /\ heap' = IF w.err # "" THEN [h EXCEPT ![new] = EmptyDict]
                   ELSE [h EXCEPT ![new] = EmptyDict, ![old] = EmptyDict]
        /\ UNCHANGED <<_memtable_being_flushed, _last_merged_sstable_id>>

\* what put returns when it leaves the heap h behind line 62: None, or the
\* exception of the flush it runs
PutResult(h) ==
    IF _is_memtable_over_threshold(h[_memtable]) /\ FlushError(h[_memtable]) # ""
    THEN Raised(FlushError(h[_memtable]))
    ELSE NoneV

\* put(key, value)
Put(key, value) ==
    /\ nops < MaxOps
    /\ LET h == [heap EXCEPT ![_memtable] = DictUpdate(@, key, value)] IN
       /\ IF _is_memtable_over_threshold(h[_memtable])
          THEN FlushEffect(h)
          ELSE /\ heap' = h
               /\ UNCHANGED <<_memtable, _memtable_being_flushed,
                              memtable_being_flushed, _data_segments,
                              _last_sstable_id, _last_merged_sstable_id, files>>
       /\ ret' = Returned("put", key, PutResult(h))
       /\ lastWrite' = [lastWrite EXCEPT ![key] =
                           [AfterPut(@, value) EXCEPT !.res = PutResult(h)]]
    /\ nops' = nops + 1
    /\ UNCHANGED threads

\* get(key)
Get(key) ==
    /\ ret' = Returned("get", key, get(key))
    /\ UNCHANGED <<engine, lastWrite, nops, threads>>

\* delete(key)
Delete(key) ==
    /\ nops < MaxOps
    /\ IF key \in DOMAIN heap[_memtable]
       THEN /\ heap' = [heap EXCEPT ![_memtable] = DictUpdate(@, key, Tombstone)]
            /\ files' = files
            /\ ret' = Returned("delete", key, NoneV)
       ELSE LET d == DeleteSearch(_data_segments, files, key, Len(_data_segments)) IN
            /\ heap' = heap
            /\ files' = IF d.err = "" /\ d.has
                        THEN [files EXCEPT ![d.segment_name] =
                                 _mark_item_as_tombstoned(@, d.item_offset)]
                        ELSE files
            /\ ret' = Returned("delete", key,
                               IF d.err # "" THEN Raised(d.err)
                               ELSE IF d.has THEN NoneV ELSE Raised("KeyError"))
    /\ lastWrite' = [lastWrite EXCEPT ![key] = AfterDelete(@, ret'.res)]
    /\ nops' = nops + 1
    /\ UNCHANGED <<_memtable, _memtable_being_flushed, memtable_being_flushed,
                   _data_segments, _last_sstable_id, _last_merged_sstable_id, threads>>

\* _flush_memtable() called directly, as the tests do after their puts; the
\* engine itself calls it from put only, with the entry just written in the
\* memtable, so it never runs on an empty memtable
FlushMemtable ==
    /\ nops < MaxOps
    /\ heap[_memtable] # EmptyDict
    /\ FlushEffect(heap)
    /\ ret' = Returned("_flush_memtable", << >>,
                       IF FlushError(heap[_memtable]) # ""
                       THEN Raised(FlushError(heap[_memtable])) ELSE NoneV)
    /\ nops' = nops + 1
    /\ UNCHANGED <<lastWrite, threads>>

\* _merge_and_compact() run without interruption: an exception of a read
\* leaves it inside the loop, after the files of the segments read before
\* were removed and before the segment list is replaced
MergeEffect ==
    /\ IF Len(_data_segments) > 1
       THEN LET id == _last_merged_sstable_id + 1
                m == MergeAll(_data_segments, 1, files, EmptyDict)
                w == _write_dict_to_data_segment(m.merged)
            IN  /\ _last_merged_sstable_id' = id
                /\ IF m.err # ""
                   THEN /\ files' = m.files
                        /\ _data_segments' = _data_segments
                        /\ ret' = Returned("_merge_and_compact", << >>, Raised(m.err))
                   ELSE /\ files' = FileWrite(m.files, MergedSegmentName(id), w.f)
                        /\ _data_segments' =
                               <<[name |-> MergedSegmentName(id), offsets |-> w.offsets]>>
                        /\ ret' = Returned("_merge_and_compact", << >>, NoneV)
       ELSE /\ UNCHANGED <<_last_merged_sstable_id, files, _data_segments>>
            /\ ret' = Returned("_merge_and_compact", << >>, NoneV)
    /\ UNCHANGED <<heap, _memtable, _memtable_being_flushed, memtable_being_flushed,
                   _last_sstable_id, lastWrite>>

\* _merge_and_compact() called directly, as the tests do
MergeAndCompact ==
    /\ nops < MaxOps
    /\ MergeEffect
    /\ nops' = nops + 1
    /\ UNCHANGED threads

\* the timer fires while no caller is inside the engine and its
\* _merge_and_compact runs to its end, or to its exception, before the next call
TimerCompaction ==
    /\ pc[Compactor] = "idle"
    /\ MergeEffect
    /\ pc' = [pc EXCEPT ![Compactor] = IF IsError(ret'.res) THEN "crashed" ELSE "finished"]
    /\ UNCHANGED <<nops, loc, merged_values, merge_pos>>

Next ==
    \/ \E key \in Keys, value \in Values : Put(key, value)
    \/ \E key \in Keys : Get(key)
    \/ \E key \in Keys : Delete(key)
    \/ FlushMemtable
    \/ MergeAndCompact

Spec == Init /\ [][Next]_vars

-----------------------------------------------------------------------------
(* Properties of the engine driven by one caller at a time (Spec)          *)

\* C1: after put(k, v) returns, with no later put or delete of k, get(k)
\* returns v, whatever flushes and compactions ran since and whatever older
\* values of k the segments hold.
C1_PutThenGet ==
    \A k \in Keys : lastWrite[k].op = "put" => get(k) = lastWrite[k].value

\* C2: after delete(k) returned successfully, get(k) returns None until the
\* next put of k, whatever flushes and compactions ran since.
C2_DeleteThenAbsent ==
    \A k \in Keys :
        (lastWrite[k].op = "delete" /\ lastWrite[k].res = NoneV) => get(k) = NoneV

\* C3: last write wins: a key written only by puts, two or more times, with
\* flushes and compactions anywhere between and after, reads as the value of
\* the latest put.
C3_LastWriteWins ==
    \A k \in Keys :
        (lastWrite[k].puts >= 2 /\ lastWrite[k].deletes = 0)
            => get(k) = lastWrite[k].value

\* get(key) on the state a step leads to
getNext(key) ==
    GetIn(heap', _memtable', _memtable_being_flushed', _data_segments', files', key)

IsCompaction == ret'.op = "_merge_and_compact" /\ nops' = nops + 1

\* C4: compaction is transparent to readers: for every key, get right after
\* _merge_and_compact returns what get returned right before it.
C4_CompactionTransparent ==
    [][IsCompaction => \A k \in Keys : getNext(k) = get(k)]_vars

\* the step is a put of the key that flushed the memtable
IsFlushingPut(key) ==
    /\ ret'.op = "put" /\ ret'.key = key /\ nops' = nops + 1
    /\ _last_sstable_id' = _last_sstable_id + 1

\* the step is a flush that follows a put of the key
IsFlushAfterPut(key) ==
    /\ ret.op = "put" /\ ret.key = key
    /\ ret'.op = "_flush_memtable" /\ nops' = nops + 1

\* C5: round trip through disk: put(k, v) followed by a flush (the one the put
\* triggers or one that follows it) and then get(k) returns a value equal to v
\* and of v's type.
C5_RoundTripThroughDisk ==
    [][\A k \in Keys :
          (IsFlushingPut(k) \/ IsFlushAfterPut(k))
              => getNext(k) = lastWrite'[k].value]_vars

\* a full linear scan of the file from position pos finds a non-tombstoned
\* record for the key
RECURSIVE ScanHoldsLive(_, _, _)
ScanHoldsLive(f, pos, key) ==
    IF _is_EOF(f, pos) THEN FALSE
    ELSE LET item == _read_item_from_disk(f, pos) IN
         IF item.err # "" THEN FALSE
         ELSE (item.key = key /\ ~item.tomb) \/ ScanHoldsLive(f, item.next, key)

SegmentHoldsLive(segment, key) ==
    /\ segment.name \in DOMAIN files
    /\ ScanHoldsLive(files[segment.name], 0, key)

NowhereLive(key) ==
    /\ key \notin DOMAIN heap[_memtable]
    /\ \A j \in DOMAIN _data_segments : ~SegmentHoldsLive(_data_segments[j], key)

IsDelete(key) == ret'.op = "delete" /\ ret'.key = key /\ nops' = nops + 1

\* C9: delete(k) of a key that is not in the live memtable and of which no
\* segment holds a non-tombstoned record raises KeyError and leaves the live
\* memtable, the segment list and every file unchanged.
C9_DeleteAbsentKey ==
    [][\A k \in Keys :
          (IsDelete(k) /\ NowhereLive(k))
              => (ret'.res = Raised("KeyError")
                  /\ UNCHANGED <<heap, _memtable, _data_segments, files>>)]_vars

\* C10: the str "tombstone" is a value like any other: after put(k, "tombstone")
\* get(k) returns it, also after flushes and compactions.
C10_TombstoneStringIsAValue ==
    \A k \in Keys :
        (lastWrite[k].op = "put" /\ lastWrite[k].value = Tombstone)
            => get(k) = Tombstone

\* the step is a put of the key
IsPut(key) == ret'.op = "put" /\ ret'.key = key /\ nops' = nops + 1

\* the estimated resident size of a memtable
EstimatedSize(d) == SumSizes(d, DOMAIN d)

\* C11: when a put returns, the estimated size of the live memtable is at most
\* the threshold; a put that takes the memtable over the threshold flushes
\* before it returns and leaves the written key out of the live memtable.
C11_MemtableBounded ==
    [][\A k \in Keys :
          IsPut(k) =>
             /\ EstimatedSize(heap'[_memtable']) <= MemtableMaxSize
             /\ (EstimatedSize(DictUpdate(heap[_memtable], k, lastWrite'[k].value))
                     > MemtableMaxSize)
                   => (/\ k \notin DOMAIN heap'[_memtable']
                       /\ _last_sstable_id' = _last_sstable_id + 1
                       /\ Len(_data_segments') = Len(_data_segments) + 1)]_vars

\* C11 witness: a put of a single entry that alone exceeds the threshold has
\* returned, and the live memtable does not hold its key
C11_Witness ==
    /\ ret.op = "put"
    /\ EntrySize(ret.key, lastWrite[ret.key].value) > MemtableMaxSize
    /\ ret.key \notin DOMAIN heap[_memtable]
    /\ Len(_data_segments) = 1

-----------------------------------------------------------------------------
(* The server: connection workers (ConnectionThread.run calling            *)
(* Node.handle_message) and the merge timer run the engine concurrently,   *)
(* one statement of _flush_memtable and _merge_and_compact at a time.      *)

\* the keys and values the connection workers pass to the engine: "a", "c";
\* handle_message passes the value as the str it split off the message: "2",
\* which stays in the memtable, and "3.200000", which takes it over the threshold
ConcKeys == {<<97>>, <<99>>}

ConcValues == {StrV(<<50>>), StrV(<<51, 46, 50, 48, 48, 48, 48, 48>>)}

RECURSIVE Sent(_)
Sent(ws) ==
    IF ws = {} THEN 0
    ELSE LET w == CHOOSE x \in ws : TRUE IN loc[w].sent + Sent(ws \ {w})

\* the worker waits in recv and the clients have a request left to send
Idle(w) == pc[w] = "idle" /\ Sent(Workers) < MaxRequests

\* a put or delete of the key has been called and has not returned
WritePending(key) ==
    \E w \in Workers : pc[w] # "idle" /\ loc[w].op = "put" /\ loc[w].key = key

\* a write of the key is called: the gets of the key in progress may now
\* return the old or the new value, and the puts of the key in progress may
\* take effect before or after it
Unsettle(l, key) ==
    [w \in Threads |->
        IF l[w].key = key /\ pc[w] # "idle"
        THEN IF l[w].op = "get" THEN [l[w] EXCEPT !.expect = NoneV]
             ELSE IF l[w].op = "put" THEN [l[w] EXCEPT !.overlap = TRUE]
             ELSE l[w]
        ELSE l[w]]

\* handle_message, "get K": lines 47-54 of get
GetMemtablesStep(w, key) ==
    /\ Idle(w)
    /\ LET m == GetMemtables(heap, _memtable, _memtable_being_flushed, key)
           expect == IF lastWrite[key].op = "put" /\ ~WritePending(key)
                     THEN lastWrite[key].value ELSE NoneV
       IN  /\ loc' = [loc EXCEPT ![w] =
                  [NoLocals EXCEPT !.op = "get", !.key = key, !.sent = loc[w].sent + 1,
                                   !.expect = expect, !.res = m.res]]
           /\ pc' = [pc EXCEPT ![w] = IF m.done THEN "idle" ELSE "get_segments"]
    /\ UNCHANGED <<engine, ret, lastWrite, nops, merged_values, merge_pos>>

\* lines 56-59 of get: the loop over the segments; an exception ends the worker
GetSegmentsStep(w) ==
    /\ pc[w] = "get_segments"
    /\ LET res == GetSegments(_data_segments, files, loc[w].key, Len(_data_segments)) IN
       /\ loc' = [loc EXCEPT ![w].res = res]
       /\ pc' = [pc EXCEPT ![w] = IF IsError(res) THEN "crashed" ELSE "idle"]
    /\ UNCHANGED <<engine, ret, lastWrite, nops, merged_values, merge_pos>>

\* handle_message, "put K V": line 62 of put
PutUpdate(w, key, value) ==
    /\ Idle(w)
    /\ heap' = [heap EXCEPT ![_memtable] = DictUpdate(@, key, value)]
    /\ loc' = [Unsettle(loc, key) EXCEPT ![w] =
                  [NoLocals EXCEPT !.op = "put", !.key = key, !.value = value,
                                   !.sent = loc[w].sent + 1,
                                   !.overlap = WritePending(key)]]
    /\ pc' = [pc EXCEPT ![w] = "put_63"]
    /\ UNCHANGED <<_memtable, _memtable_being_flushed, memtable_being_flushed,
                   _data_segments, _last_sstable_id, _last_merged_sstable_id, files,
                   ret, lastWrite, nops, merged_values, merge_pos>>

\* put returns to handle_message: its locals are gone
PutReturns(w) ==
    /\ lastWrite' = [lastWrite EXCEPT ![loc[w].key] =
                        IF loc[w].overlap THEN [AfterPut(@, loc[w].value) EXCEPT !.op = "race"]
                        ELSE AfterPut(@, loc[w].value)]
    /\ loc' = [loc EXCEPT ![w] = [NoLocals EXCEPT !.sent = loc[w].sent]]
    /\ pc' = [pc EXCEPT ![w] = "idle"]

\* line 63 of put: flush if the live memtable is over the threshold
PutCheck(w) ==
    /\ pc[w] = "put_63"
    /\ IF _is_memtable_over_threshold(heap[_memtable])
       THEN /\ pc' = [pc EXCEPT ![w] = "flush_92"]
            /\ UNCHANGED <<lastWrite, loc>>
       ELSE PutReturns(w)
    /\ UNCHANGED <<engine, ret, nops, merged_values, merge_pos>>

\* line 92: self.memtable_being_flushed = self._memtable
Flush92(w) ==
    /\ pc[w] = "flush_92"
    /\ memtable_being_flushed' = _memtable
    /\ loc' = [loc EXCEPT ![w].rotated = heap[_memtable]]
    /\ pc' = [pc EXCEPT ![w] = "flush_93"]
    /\ UNCHANGED <<heap, _memtable, _memtable_being_flushed, _data_segments,
                   _last_sstable_id, _last_merged_sstable_id, files, ret, lastWrite,
                   nops, merged_values, merge_pos>>

\* line 93: self._memtable = sortedcontainers.SortedDict()
Flush93(w) ==
    /\ pc[w] = "flush_93"
    /\ LET new == NewObj({_memtable_being_flushed, memtable_being_flushed}) IN
       /\ _memtable' = new
       /\ heap' = [heap EXCEPT ![new] = EmptyDict]
    /\ pc' = [pc EXCEPT ![w] = "flush_95"]
    /\ UNCHANGED <<_memtable_being_flushed, memtable_being_flushed, _data_segments,
                   _last_sstable_id, _last_merged_sstable_id, files, ret, lastWrite,
                   nops, loc, merged_values, merge_pos>>

\* line 95, self._last_sstable_id += 1: the load of the attribute
Flush95Load(w) ==
    /\ pc[w] = "flush_95"
    /\ loc' = [loc EXCEPT ![w].id = _last_sstable_id]
    /\ pc' = [pc EXCEPT ![w] = "flush_95_store"]
    /\ UNCHANGED <<engine, ret, lastWrite, nops, merged_values, merge_pos>>

\* line 95, self._last_sstable_id += 1: the store of the sum
Flush95Store(w) ==
    /\ pc[w] = "flush_95_store"
    /\ _last_sstable_id' = loc[w].id + 1
    /\ pc' = [pc EXCEPT ![w] = "flush_96"]
    /\ UNCHANGED <<heap, _memtable, _memtable_being_flushed, memtable_being_flushed,
                   _data_segments, _last_merged_sstable_id, files, ret, lastWrite,
                   nops, loc, merged_values, merge_pos>>

\* lines 96-100: name the segment after the counter and write
\* self.memtable_being_flushed to it
Flush98(w) ==
    /\ pc[w] = "flush_96"
    /\ LET wr == _write_dict_to_data_segment(heap[memtable_being_flushed]) IN
       /\ files' = FileWrite(files, SegmentName(_last_sstable_id), wr.f)
       /\ loc' = [loc EXCEPT ![w].name = _last_sstable_id, ![w].offsets = wr.offsets]
       /\ pc' = [pc EXCEPT ![w] = IF wr.err # "" THEN "crashed" ELSE "flush_101"]
    /\ UNCHANGED <<heap, _memtable, _memtable_being_flushed, memtable_being_flushed,
                   _data_segments, _last_sstable_id, _last_merged_sstable_id, ret,
                   lastWrite, nops, merged_values, merge_pos>>

\* line 101: self._data_segments.append((data_segment_name, offsets))
Flush101(w) ==
    /\ pc[w] = "flush_101"
    /\ _data_segments' = Append(_data_segments,
           [name |-> SegmentName(loc[w].name), offsets |-> loc[w].offsets])
    /\ pc' = [pc EXCEPT ![w] = "flush_102"]
    /\ UNCHANGED <<heap, _memtable, _memtable_being_flushed, memtable_being_flushed,
                   _last_sstable_id, _last_merged_sstable_id, files, ret, lastWrite,
                   nops, loc, merged_values, merge_pos>>

\* line 102: self.memtable_being_flushed.clear(); then put returns
Flush102(w) ==
    /\ pc[w] = "flush_102"
    /\ heap' = [heap EXCEPT ![memtable_being_flushed] = EmptyDict]
    /\ PutReturns(w)
    /\ UNCHANGED <<_memtable, _memtable_being_flushed, memtable_being_flushed,
                   _data_segments, _last_sstable_id, _last_merged_sstable_id, files,
                   ret, nops, merged_values, merge_pos>>

\* handle_message, "delete K": delete(key); an exception ends the worker
DeleteStep(w, key) ==
    /\ Idle(w)
    /\ IF key \in DOMAIN heap[_memtable]
       THEN /\ heap' = [heap EXCEPT ![_memtable] = DictUpdate(@, key, Tombstone)]
            /\ files' = files
            /\ loc' = [Unsettle(loc, key) EXCEPT ![w] =
                          [NoLocals EXCEPT !.op = "delete", !.key = key,
                                           !.sent = loc[w].sent + 1]]
       ELSE LET d == DeleteSearch(_data_segments, files, key, Len(_data_segments)) IN
            /\ heap' = heap
            /\ files' = IF d.err = "" /\ d.has
                        THEN [files EXCEPT ![d.segment_name] =
                                 _mark_item_as_tombstoned(@, d.item_offset)]
                        ELSE files
            /\ loc' = [Unsettle(loc, key) EXCEPT ![w] =
                          [NoLocals EXCEPT !.op = "delete", !.key = key,
                                           !.sent = loc[w].sent + 1,
                                           !.res = IF d.err # "" THEN Raised(d.err)
                                                   ELSE IF d.has THEN NoneV
                                                   ELSE Raised("KeyError")]]
    /\ lastWrite' = [lastWrite EXCEPT ![key] = AfterDelete(@, loc'[w].res)]
    /\ pc' = [pc EXCEPT ![w] = IF IsError(loc'[w].res) THEN "crashed" ELSE "idle"]
    /\ UNCHANGED <<_memtable, _memtable_being_flushed, memtable_being_flushed,
                   _data_segments, _last_sstable_id, _last_merged_sstable_id, ret,
                   nops, merged_values, merge_pos>>

\* the timer fires: lines 298-303 of _merge_and_compact
Merge298 ==
    /\ pc[Compactor] = "idle"
    /\ IF Len(_data_segments) > 1
       THEN /\ _last_merged_sstable_id' = _last_merged_sstable_id + 1
            /\ merged_values' = EmptyDict
            /\ merge_pos' = 1
            /\ pc' = [pc EXCEPT ![Compactor] = "merge_305"]
       ELSE /\ UNCHANGED <<_last_merged_sstable_id, merged_values, merge_pos>>
            /\ pc' = [pc EXCEPT ![Compactor] = "finished"]
    /\ UNCHANGED <<heap, _memtable, _memtable_being_flushed, memtable_being_flushed,
                   _data_segments, _last_sstable_id, files, ret, lastWrite, nops, loc>>

\* lines 305-313: one iteration of the loop over the list self._data_segments
Merge305 ==
    /\ pc[Compactor] = "merge_305"
    /\ IF merge_pos <= Len(_data_segments)
       THEN LET m == MergeSegment(_data_segments[merge_pos], files, merged_values) IN
            /\ files' = m.files
            /\ merged_values' = m.merged
            /\ merge_pos' = merge_pos + 1
            /\ pc' = [pc EXCEPT ![Compactor] = IF m.err # "" THEN "crashed" ELSE @]
       ELSE /\ UNCHANGED <<files, merged_values, merge_pos>>
            /\ pc' = [pc EXCEPT ![Compactor] = "merge_315"]
    /\ UNCHANGED <<heap, _memtable, _memtable_being_flushed, memtable_being_flushed,
                   _data_segments, _last_sstable_id, _last_merged_sstable_id, ret,
                   lastWrite, nops, loc>>

\* lines 315-317: write the merged values to the merged segment
Merge315 ==
    /\ pc[Compactor] = "merge_315"
    /\ LET wr == _write_dict_to_data_segment(merged_values) IN
       /\ files' = FileWrite(files, MergedSegmentName(_last_merged_sstable_id), wr.f)
       /\ loc' = [loc EXCEPT ![Compactor].offsets = wr.offsets]
    /\ pc' = [pc EXCEPT ![Compactor] = "merge_318"]
    /\ UNCHANGED <<heap, _memtable, _memtable_being_flushed, memtable_being_flushed,
                   _data_segments, _last_sstable_id, _last_merged_sstable_id, ret,
                   lastWrite, nops, merged_values, merge_pos>>

\* line 318: self._data_segments = [(merged_data_segment_name, offsets)]
Merge318 ==
    /\ pc[Compactor] = "merge_318"
    /\ _data_segments' = <<[name |-> MergedSegmentName(_last_merged_sstable_id),
                            offsets |-> loc[Compactor].offsets]>>
    /\ pc' = [pc EXCEPT ![Compactor] = "finished"]
    /\ loc' = [loc EXCEPT ![Compactor] = NoLocals]
    /\ merged_values' = EmptyDict
    /\ merge_pos' = 0
    /\ UNCHANGED <<heap, _memtable, _memtable_being_flushed, memtable_being_flushed,
                   _last_sstable_id, _last_merged_sstable_id, files, ret, lastWrite,
                   nops>>

NextConc ==
    \/ \E w \in Workers, key \in ConcKeys : GetMemtablesStep(w, key)
    \/ \E w \in Workers : GetSegmentsStep(w)
    \/ \E w \in Workers, key \in ConcKeys, value \in ConcValues : PutUpdate(w, key, value)
    \/ \E w \in Workers : PutCheck(w)
    \/ \E w \in Workers : Flush92(w)
    \/ \E w \in Workers : Flush93(w)
    \/ \E w \in Workers : Flush95Load(w)
    \/ \E w \in Workers : Flush95Store(w)
    \/ \E w \in Workers : Flush98(w)
    \/ \E w \in Workers : Flush101(w)
    \/ \E w \in Workers : Flush102(w)
    \/ \E w \in Workers, key \in ConcKeys : DeleteStep(w, key)
    \/ Merge298
    \/ Merge305
    \/ Merge315
    \/ Merge318

SpecConc == Init /\ [][NextConc]_vars

-----------------------------------------------------------------------------
(* The engine given values of any type: put takes whatever object the      *)
(* caller passes.                                                          *)

\* 2 and "3.200000", which are supported, the list [1] and the int 2^31
AnyValues == {IntV(2), StrV(<<51, 46, 50, 48, 48, 48, 48, 48>>), ListV, IntTooBig}

NextTypes ==
    \/ \E key \in ConcKeys, value \in AnyValues : Put(key, value)
    \/ \E key \in ConcKeys : Get(key)
    \/ FlushMemtable

SpecTypes == Init /\ [][NextTypes]_vars

\* the value is an int32, a float64 or a str
Supported(v) == v.t \in {"float", "str"} \/ (v.t = "int" /\ InInt32(v))

\* C13: a put of a value that is no int32, float64 or str fails in that put:
\* no memtable ever holds such a value, so a put of a supported value never
\* fails and no flush discards entries accepted before.
C13_UnsupportedRejected ==
    /\ \A o \in ObjIds : \A k \in DOMAIN heap[o] : Supported(heap[o][k])
    /\ (ret.op = "put" /\ Supported(lastWrite[ret.key].value)) => ret.res = NoneV
    /\ \A k \in Keys :
          (lastWrite[k].op = "put" /\ Supported(lastWrite[k].value)
             /\ lastWrite[k].res = NoneV) => get(k) = lastWrite[k].value

-----------------------------------------------------------------------------
(* The merge scheduler: the threading.Timer that __init__ starts runs       *)
(* _merge_and_compact in its own thread once the interval has elapsed,      *)
(* beside a caller that puts and gets; _stop_merge_scheduler cancels it.    *)

\* _stop_merge_scheduler(): cancel() stops a timer that still waits and does
\* nothing to one that has fired; the scheduler is then None
StopMergeScheduler ==
    /\ pc[Compactor] \in {"idle", "finished"}
    /\ pc' = [pc EXCEPT ![Compactor] = "cancelled"]
    /\ UNCHANGED <<engine, ret, lastWrite, nops, loc, merged_values, merge_pos>>

NextTimer ==
    \/ \E key \in ConcKeys, value \in ConcValues : Put(key, value)
    \/ \E key \in ConcKeys : Get(key)
    \/ StopMergeScheduler
    \/ Merge298
    \/ Merge305
    \/ Merge315
    \/ Merge318

\* a timer that waits fires once its interval has elapsed: the call of
\* _merge_and_compact (line 298) is taken if it stays possible
SpecTimer == Init /\ [][NextTimer]_vars /\ WF_vars(Merge298)

\* C12: the compactor is periodic: unless the scheduler is cancelled, a
\* compaction attempt fires after construction, and after every firing that
\* has finished another firing follows.
C12_CompactorPeriodic ==
    /\ (pc[Compactor] = "idle") ~> (pc[Compactor] # "idle")
    /\ (pc[Compactor] = "finished") ~> (pc[Compactor] # "finished")

-----------------------------------------------------------------------------
(* Properties of the server under concurrent connections (SpecConc)        *)

\* the worker's flush has rotated the memtable (line 93) and not yet appended
\* its segment (line 101)
InFlushWindow(w) == pc[w] \in {"flush_95", "flush_95_store", "flush_96", "flush_101"}

\* a full linear scan of the file from position pos finds a record of the key
RECURSIVE ScanHasRecord(_, _, _)
ScanHasRecord(f, pos, key) ==
    IF _is_EOF(f, pos) THEN FALSE
    ELSE LET item == _read_item_from_disk(f, pos) IN
         IF item.err # "" THEN FALSE
         ELSE item.key = key \/ ScanHasRecord(f, item.next, key)

\* the key is in one of the three places get consults
VisibleToGet(key) ==
    \/ key \in DOMAIN heap[_memtable]
    \/ key \in DOMAIN heap[_memtable_being_flushed]
    \/ \E j \in DOMAIN _data_segments :
          /\ _data_segments[j].name \in DOMAIN files
          /\ ScanHasRecord(files[_data_segments[j].name], 0, key)

\* C6: flush is atomic to readers: while a flush is between the rotation of the
\* memtable and the append of its segment, every key the rotated memtable held
\* is in the live memtable, in the being-flushed slot get consults or in a
\* listed segment, and a get of it does not return None.
C6_FlushAtomic ==
    \A w \in Workers : \A k \in DOMAIN loc[w].rotated :
        (InFlushWindow(w) /\ loc[w].rotated[k] # Tombstone)
            => (VisibleToGet(k) /\ get(k) # NoneV)

\* C7: compaction is atomic to readers: a get running while _merge_and_compact
\* runs reads the segment list of before or of after the compaction with its
\* files present; it never fails on a listed segment whose file the compaction
\* has removed.
C7_CompactionAtomic ==
    \A w \in Workers :
        ~(pc[w] = "crashed" /\ loc[w].op = "get"
          /\ loc[w].res = Raised("FileNotFoundError"))

\* C8: the point operations are linearizable; in particular a get called after
\* a put of its key returned, with no other write of the key in progress then
\* or called during the get, returns the value put.
C8_Linearizable ==
    \A w \in Workers :
        (pc[w] = "idle" /\ loc[w].op = "get" /\ loc[w].expect # NoneV)
            => loc[w].res = loc[w].expect

\* the reply "OK"
OK == StrV(<<79, 75>>)

\* the reply "key 'K' not found"
KeyNotFound(key) ==
    StrV(<<107, 101, 121, 32, 39>> \o key
            \o <<39, 32, 110, 111, 116, 32, 102, 111, 117, 110, 100>>)

\* what handle_message has sent the client for the worker's last message,
\* NoneV if nothing: a reply is sent after the engine call has returned, so
\* none while the call runs and none when it raised, the exception leaving
\* handle_message and run; a get is answered only if its value is a str
Reply(w) ==
    IF pc[w] # "idle" \/ loc[w].sent = 0 THEN NoneV
    ELSE IF loc[w].op = "get"
         THEN IF loc[w].res = NoneV THEN KeyNotFound(loc[w].key)
              ELSE IF loc[w].res.t = "str" THEN loc[w].res
              ELSE NoneV
    ELSE OK

\* C14: the command "delete K" for a key K that delete finds neither in the
\* memtable nor in a segment is answered with "OK", and the worker is back in
\* recv to serve the next command of its connection.
C14_DeleteAbsentAnswered ==
    \A w \in Workers :
        (loc[w].op = "delete" /\ loc[w].res = Raised("KeyError"))
            => (pc[w] = "idle" /\ Reply(w) = OK)


-----------------------------------------------------------------------------
(* The engine driven by one caller at a time while the timer is armed: the *)
(* compaction is the timer's, between two calls.                           *)

\* the str "" and the float 3.2: an entry that stays in the memtable and one
\* that takes it over the threshold
CompactValues == {StrV(<< >>), FloatV(Float3_2)}

NextCompact ==
    \/ \E key \in Keys, value \in CompactValues : Put(key, value)
    \/ \E key \in Keys : Delete(key)
    \/ FlushMemtable
    \/ TimerCompaction

SpecCompact == Init /\ [][NextCompact]_vars

-----------------------------------------------------------------------------
(* Properties of the lookup, of delete, of flush and of compaction         *)

\* the segments, by position in the list, in which a full linear scan finds a
\* record of the key, tombstoned or not
SegmentsHolding(key) ==
    {j \in DOMAIN _data_segments :
        /\ _data_segments[j].name \in DOMAIN files
        /\ ScanHasRecord(files[_data_segments[j].name], 0, key)}

\* the newest of a non-empty set of positions in the segment list
Newest(S) == CHOOSE j \in S : \A m \in S : m <= j

\* C15: when get reaches the segments, the newest segment that holds a record
\* of the key decides: if that record is tombstoned, get returns None and no
\* value of the key from an older segment.
C15_NewestSegmentDecides ==
    \A k \in Keys :
        (/\ ~GetMemtables(heap, _memtable, _memtable_being_flushed, k).done
         /\ SegmentsHolding(k) # {}
         /\ ~SegmentHoldsLive(_data_segments[Newest(SegmentsHolding(k))], k))
            => get(k) = NoneV

\* the step is a delete of the key that went to the segments, found a record
\* and marked it
IsMarkingDelete(key) ==
    /\ IsDelete(key)
    /\ key \notin DOMAIN heap[_memtable]
    /\ ret'.res = NoneV

\* C16: delete(k) of a key not in the live memtable changes one byte on disk,
\* the tombstone byte of the record of k at the offset find returned, in the
\* newest segment where find returns k; every other byte of that segment and
\* every other segment are unchanged, whatever the lengths of the keys, and
\* the get result of every other key is unchanged.
C16_DeleteMarksOneByte ==
    [][\A k \in Keys :
          IsMarkingDelete(k) =>
             LET d == DeleteSearch(_data_segments, files, k, Len(_data_segments)) IN
             /\ files' = [files EXCEPT ![d.segment_name] =
                             WriteByteAt(@, d.item_offset + 4 + Len(k), 1)]
             /\ \A other \in Keys \ {k} : getNext(other) = get(other)]_vars

StrLeq(a, b) == a = b \/ StrLess(a, b)

\* the sparse indexes of the listed segments that hold a key
Indexes == {_data_segments[j].offsets : j \in DOMAIN _data_segments} \ {<< >>}

\* the key is greater than every key of the index
AboveIndex(key, offsets) == \A j \in DOMAIN offsets : StrLess(offsets[j].key, key)

\* upper is None exactly when the key is greater than every index key, and
\* then lower is the last index key
UpperAbsentIffAbove(key, offsets) ==
    LET r == _find_block_range_for_key(key, offsets) IN
    /\ r.err = ""
    /\ ~r.upper.has <=> AboveIndex(key, offsets)
    /\ ~r.upper.has =>
          (r.lower.has /\ r.lower.key = offsets[Len(offsets)].key)

\* C18: for every sparse index that holds a key and every lookup key,
\* _find_block_range_for_key returns (lower, upper) with lower <= key <= upper
\* whenever both are present; upper is None exactly when the key is greater
\* than every index key, and then lower is the last index key.
C18_BlockRangeBoundsKey ==
    \A offsets \in Indexes : \A k \in Keys :
        LET r == _find_block_range_for_key(k, offsets) IN
        /\ UpperAbsentIffAbove(k, offsets)
        /\ (r.lower.has /\ r.upper.has)
              => (StrLeq(r.lower.key, k) /\ StrLeq(k, r.upper.key))

\* C18 as amended: the same, but a key smaller than every index key gets the
\* first index key as both bounds.
C18_BlockRangeAmended ==
    \A offsets \in Indexes : \A k \in Keys :
        LET r == _find_block_range_for_key(k, offsets) IN
        /\ UpperAbsentIffAbove(k, offsets)
        /\ (r.lower.has /\ r.upper.has)
              => IF StrLess(k, offsets[1].key)
                 THEN r.lower.key = offsets[1].key /\ r.upper.key = offsets[1].key
                 ELSE StrLeq(r.lower.key, k) /\ StrLeq(k, r.upper.key)

\* an index of two blocks is looked up for a key strictly between its keys,
\* and an index is looked up for a key below its first key
C18_Witness ==
    /\ \E offsets \in Indexes : \E k \in Keys :
          /\ Len(offsets) >= 2
          /\ StrLess(offsets[1].key, k) /\ StrLess(k, offsets[2].key)
          /\ _find_block_range_for_key(k, offsets).upper.has
    /\ \E offsets \in Indexes : \E k \in Keys : StrLess(k, offsets[1].key)

\* the record a full linear scan of the file from position pos finds for the
\* key, if it is not tombstoned: its value and the offset it starts at
RECURSIVE LinearScan(_, _, _)
LinearScan(f, pos, key) ==
    IF _is_EOF(f, pos) THEN FindNone
    ELSE LET item == _read_item_from_disk(f, pos) IN
         IF item.err # "" THEN FindFailed(item.err)
         ELSE IF item.key = key
         THEN IF item.tomb THEN FindNone
              ELSE [err |-> "", found |-> TRUE, value |-> item.value, offset |-> pos]
         ELSE LinearScan(f, item.next, key)

\* C17: for every listed segment, written by a flush or a compaction and
\* changed since only by delete's marking, and every key, _find_item_in_segment
\* returns (v, offset) exactly when a full linear scan of the file finds a
\* non-tombstoned record of the key with value v at that offset, and None
\* otherwise.
C17_FindMatchesLinearScan ==
    \A j \in DOMAIN _data_segments : \A k \in Keys :
        _data_segments[j].name \in DOMAIN files
            => _find_item_in_segment(k, _data_segments[j], files)
                  = LinearScan(files[_data_segments[j].name], 0, k)

\* the number of records of the key, tombstoned or not, in the file from pos
RECURSIVE CountRecords(_, _, _)
CountRecords(f, pos, key) ==
    IF _is_EOF(f, pos) THEN 0
    ELSE LET item == _read_item_from_disk(f, pos) IN
         IF item.err # "" THEN 0
         ELSE (IF item.key = key THEN 1 ELSE 0) + CountRecords(f, item.next, key)

\* the value the newest record of the key across the listed segments carries:
\* NoneV if no segment holds a record of the key or the newest is tombstoned
NewestRecordValue(key) ==
    IF SegmentsHolding(key) = {} THEN NoneV
    ELSE LET r == LinearScan(files[_data_segments[Newest(SegmentsHolding(key))].name],
                             0, key)
         IN  IF r.found THEN r.value ELSE NoneV

\* the step is a run of _merge_and_compact over two or more segments
IsMerge ==
    /\ ret'.op = "_merge_and_compact"
    /\ nops' = nops + 1 \/ pc'[Compactor] # pc[Compactor]
    /\ Len(_data_segments) > 1

\* C19: a compaction over two or more segments leaves exactly one listed
\* segment and none of the source files; the merged segment holds one record,
\* with the newest value, for every key whose newest record across the sources
\* is not tombstoned, and no record for any other key.
C19_CompactionMergesNewest ==
    [][IsMerge =>
          /\ Len(_data_segments') = 1
          /\ \A j \in DOMAIN _data_segments : _data_segments[j].name \notin DOMAIN files'
          /\ _data_segments'[1].name \in DOMAIN files'
          /\ \A k \in Keys :
                LET merged == files'[_data_segments'[1].name] IN
                IF NewestRecordValue(k) = NoneV
                THEN CountRecords(merged, 0, k) = 0
                ELSE /\ CountRecords(merged, 0, k) = 1
                     /\ LinearScan(merged, 0, k).found
                     /\ LinearScan(merged, 0, k).value = NewestRecordValue(k)]_vars

\* the live memtable as the flush of the step finds it: with the entry of the
\* put, if a put runs the flush
FlushedMemtable ==
    IF ret'.op = "put"
    THEN DictUpdate(heap[_memtable], ret'.key, lastWrite'[ret'.key].value)
    ELSE heap[_memtable]

\* the step runs _flush_memtable, called directly or by a put
IsFlush ==
    /\ nops' = nops + 1
    /\ \/ ret'.op = "_flush_memtable"
       \/ ret'.op = "put" /\ _is_memtable_over_threshold(FlushedMemtable)

\* C20: a flush writes every entry of the live memtable that is no deletion
\* marker, and nothing else, into one new segment, appended as the newest of
\* the list; afterwards the live memtable is a fresh empty one, the memtable
\* being flushed is empty, and the segments listed before, their files and
\* their indexes are unchanged.
C20_FlushWritesMemtable ==
    [][IsFlush =>
          /\ Len(_data_segments') = Len(_data_segments) + 1
          /\ SubSeq(_data_segments', 1, Len(_data_segments)) = _data_segments
          /\ \A j \in DOMAIN _data_segments :
                LET n == _data_segments[j].name IN
                /\ _data_segments'[Len(_data_segments')].name # n
                /\ n \in DOMAIN files => (n \in DOMAIN files' /\ files'[n] = files[n])
          /\ _data_segments'[Len(_data_segments')].name \in DOMAIN files'
          /\ \A k \in Keys :
                LET f == files'[_data_segments'[Len(_data_segments')].name] IN
                IF k \in DOMAIN FlushedMemtable /\ FlushedMemtable[k] # Tombstone
                THEN /\ CountRecords(f, 0, k) = 1
                     /\ LinearScan(f, 0, k).found
                     /\ LinearScan(f, 0, k).value = FlushedMemtable[k]
                ELSE CountRecords(f, 0, k) = 0
          /\ _memtable' # _memtable
          /\ heap'[_memtable'] = EmptyDict
          /\ heap'[memtable_being_flushed'] = EmptyDict
          /\ heap'[_memtable_being_flushed'] = EmptyDict]_vars

\* the index read back from a file: the records from position pos on, of
\* which in_block bytes lie in the current block; a record starts a block if
\* it is the first of the file or does not fit in what the block has left
RECURSIVE BlockStarts(_, _, _, _)
BlockStarts(f, pos, in_block, index) ==
    IF _is_EOF(f, pos) THEN index
    ELSE LET item == _read_item_from_disk(f, pos) IN
         IF item.err # "" THEN index
         ELSE LET size == item.next - pos
                  overflows == in_block + size > SstableBlockSize
              IN  BlockStarts(f, item.next,
                              IF overflows THEN size ELSE in_block + size,
                              IF pos = 0 \/ overflows
                              THEN Append(index, [key |-> item.key, off |-> pos])
                              ELSE index)

\* the names of the listed segments
SegmentNames == {_data_segments[j].name : j \in DOMAIN _data_segments}

\* the number of records a full scan of the file finds for the keys
RecordsInFile(f) ==
    Cardinality({k \in Keys : CountRecords(f, 0, k) > 0})

\* C21: the sparse index the writer returns for a segment has one entry per
\* block and no other: the first record written maps to offset 0, a later
\* record has an entry exactly when its size added to the bytes of the current
\* block exceeds the block size, and the offset of an entry is the position
\* at which its record starts in the file.
C21_SparseIndexPerBlock ==
    [][\A j \in DOMAIN _data_segments' :
          LET segment == _data_segments'[j] IN
          (segment.name \notin SegmentNames /\ segment.name \in DOMAIN files')
              => segment.offsets = BlockStarts(files'[segment.name], 0, 0, << >>)]_vars

\* a listed segment of three records in two blocks, as the writer left it: an
\* index entry for the first record, none for the second, one for the third
C21_Witness ==
    \E j \in DOMAIN _data_segments :
        LET segment == _data_segments[j] IN
        /\ segment.name \in DOMAIN files
        /\ RecordsInFile(files[segment.name]) = 3
        /\ Len(segment.offsets) = 2
        /\ segment.offsets[2].off > 0
        /\ segment.offsets = BlockStarts(files[segment.name], 0, 0, << >>)

\* the worker's flush has written its segment file (lines 96-100) and not
\* yet returned
HasWrittenSegment(w) == pc[w] \in {"flush_101", "flush_102"}

\* C22: every flush allocates a segment id greater than every id allocated
\* before, and no two flushes write the same segment file, also when the puts
\* of two connection workers flush at the same time: two flushes in progress
\* have written files of different ids, and the ids of the flushed segments
\* in the list increase.
C22_SegmentIdsUnique ==
    /\ \A w \in Workers : \A v \in Workers \ {w} :
          (HasWrittenSegment(w) /\ HasWrittenSegment(v)) => loc[w].name # loc[v].name
    /\ \A i \in DOMAIN _data_segments : \A j \in DOMAIN _data_segments :
          (i < j /\ _data_segments[i].name.kind = "segment"
                 /\ _data_segments[j].name.kind = "segment")
              => _data_segments[i].name.id < _data_segments[j].name.id

\* a listed segment holds no records: the writer skipped every entry
HasEmptySegment ==
    \E j \in DOMAIN _data_segments :
        /\ _data_segments[j].name \in DOMAIN files
        /\ files[_data_segments[j].name] = << >>

\* C23: get does not fail on a segment that holds no records: with such a
\* segment listed, after a flush of a memtable of deletion markers only or a
\* compaction that merged to nothing, get of any key returns a value or None
\* and raises nothing.
C23_GetOnEmptySegment ==
    HasEmptySegment => \A k \in Keys : ~IsError(get(k))

\* the step is line 318 of a compaction: the merged segment replaces the list
IsInstall == pc[Compactor] = "merge_318" /\ pc'[Compactor] = "finished"

\* the segment at position j of the list was appended after the loop of the
\* compaction in progress had ended, under a name no other listed segment has
AppendedBehindMerge(j) ==
    /\ j >= merge_pos
    /\ _data_segments[j].name \in DOMAIN files
    /\ \A i \in DOMAIN _data_segments \ {j} :
          _data_segments[i].name # _data_segments[j].name

\* C24: a segment that a flush appended while a compaction was in progress is
\* still listed when the compaction has installed its result, and its keys
\* still read the same: the compaction takes from the list only the segments
\* it merged, those at the positions its loop has passed.
C24_FlushDuringCompactionKept ==
    [][IsInstall =>
          \A j \in DOMAIN _data_segments :
              AppendedBehindMerge(j)
                  => /\ \E i \in DOMAIN _data_segments' :
                           _data_segments'[i] = _data_segments[j]
                     /\ \A k \in ConcKeys :
                           SegmentHoldsLive(_data_segments[j], k)
                               => getNext(k) = get(k)]_vars

====
